---- MODULE Spec2Model ----
(***************************************************************************)
(* Model of the pedestrian-volume disaggregation pipeline                  *)
(*   src/estimate_ratio_using_stc/utils.py  (get_24h_count_df, get_AADPT,  *)
(*       get_true_ratio, get_8h_count_df, get_ratio_errors)                *)
(*   src/stc_estimation/main.py             (the driver loop of main)      *)
(*                                                                         *)
(* The pipeline computes in IEEE-754 binary64 (numpy float64 and Python    *)
(* float).  The arithmetic is modelled bit-exactly (round to nearest, ties *)
(* to even) on arbitrary-precision naturals kept as little-endian limb     *)
(* sequences, because TLC's integers are 32 bits wide.  The exponent range *)
(* of binary64 is not modelled: every value the pipeline forms from the    *)
(* bounded inputs lies between 2^-80 and 2^40.                             *)
(***************************************************************************)
EXTENDS Integers, Sequences, FiniteSets, TLC

(***************************************************************************)
(* Arbitrary-precision naturals: little-endian sequences of limbs in       *)
(* 0..LimbBase-1 without high zero limbs; <<>> is 0.                       *)
(***************************************************************************)
LimbBits == 7 + 7
LimbBase == 2 ^ LimbBits

Limb(x, i) == IF i >= 1 /\ i <= Len(x) THEN x[i] ELSE 0

RECURSIVE BTrim(_)
BTrim(x) ==
  IF Len(x) = 0 THEN x
  ELSE IF x[Len(x)] # 0 THEN x
  ELSE BTrim(SubSeq(x, 1, Len(x) - 1))

RECURSIVE BOfInt(_)
BOfInt(n) == IF n = 0 THEN <<>> ELSE <<n % LimbBase>> \o BOfInt(n \div LimbBase)

RECURSIVE BAddRec(_, _, _, _)
BAddRec(x, y, i, c) ==
  IF i > Len(x) /\ i > Len(y)
  THEN (IF c = 0 THEN <<>> ELSE <<c>>)
  ELSE LET t == Limb(x, i) + Limb(y, i) + c
       IN  <<t % LimbBase>> \o BAddRec(x, y, i + 1, t \div LimbBase)

BAdd(x, y) == BAddRec(x, y, 1, 0)

\* x - y for x >= y
RECURSIVE BSubRec(_, _, _, _)
BSubRec(x, y, i, b) ==
  IF i > Len(x) THEN <<>>
  ELSE LET t == x[i] - Limb(y, i) - b
       IN  IF t < 0 THEN <<t + LimbBase>> \o BSubRec(x, y, i + 1, 1)
           ELSE <<t>> \o BSubRec(x, y, i + 1, 0)

BSub(x, y) == BTrim(BSubRec(x, y, 1, 0))

\* -1, 0, 1 as x < y, x = y, x > y (both without high zero limbs)
RECURSIVE BCmpRec(_, _, _)
BCmpRec(x, y, i) ==
  IF i = 0 THEN 0
  ELSE IF x[i] < y[i] THEN -1
  ELSE IF x[i] > y[i] THEN 1
  ELSE BCmpRec(x, y, i - 1)

BCmp(x, y) ==
  IF Len(x) < Len(y) THEN -1
  ELSE IF Len(x) > Len(y) THEN 1
  ELSE BCmpRec(x, y, Len(x))

\* x * d for a single limb d
RECURSIVE BMulSmallRec(_, _, _, _)
BMulSmallRec(x, d, i, c) ==
  IF i > Len(x) THEN (IF c = 0 THEN <<>> ELSE <<c>>)
  ELSE LET t == x[i] * d + c
       IN  <<t % LimbBase>> \o BMulSmallRec(x, d, i + 1, t \div LimbBase)

BMulSmall(x, d) == IF d = 0 THEN <<>> ELSE BMulSmallRec(x, d, 1, 0)

BShlLimbs(x, q) == IF Len(x) = 0 THEN x ELSE [i \in 1..q |-> 0] \o x

RECURSIVE BMulRec(_, _, _)
BMulRec(x, y, j) ==
  IF j > Len(y) THEN <<>>
  ELSE BAdd(BShlLimbs(BMulSmall(x, y[j]), j - 1), BMulRec(x, y, j + 1))

BMul(x, y) == BMulRec(x, y, 1)

\* x * 2^s
BShl(x, s) == BShlLimbs(BMulSmall(x, 2 ^ (s % LimbBits)), s \div LimbBits)

\* x \div 2^s
BShr(x, s) ==
  LET q == s \div LimbBits
      r == s % LimbBits
      n == Len(x) - q
  IN  IF n <= 0 THEN <<>>
      ELSE BTrim([i \in 1..n |->
                    (x[q + i] \div (2 ^ r))
                    + (Limb(x, q + i + 1) % (2 ^ r)) * (2 ^ (LimbBits - r))])

\* x % 2^s = 0
BLowZero(x, s) ==
  LET q == s \div LimbBits
      r == s % LimbBits
  IN  /\ \A i \in 1..q : Limb(x, i) = 0
      /\ Limb(x, q + 1) % (2 ^ r) = 0

\* bit i of x, bit 0 the lowest
BBit(x, i) == (Limb(x, (i \div LimbBits) + 1) \div (2 ^ (i % LimbBits))) % 2

SmallBitLen(v) == CHOOSE k \in 0..LimbBits : v < 2 ^ k /\ (k = 0 \/ v >= 2 ^ (k - 1))

BBitLen(x) ==
  IF Len(x) = 0 THEN 0 ELSE (Len(x) - 1) * LimbBits + SmallBitLen(x[Len(x)])

\* One quotient limb of long division: the largest q with d * q <= r, for
\* r < d * LimbBase and d with its top limb >= LimbBase / 2.
RECURSIVE BQuotFix(_, _, _)
BQuotFix(r, d, q) ==
  IF BCmp(BMulSmall(d, q), r) <= 0 THEN q ELSE BQuotFix(r, d, q - 1)

BQuotLimb(r, d) ==
  LET n    == Len(d)
      top  == Limb(r, n + 1) * LimbBase + Limb(r, n)
      qhat == top \div d[n]
  IN  BQuotFix(r, d, IF qhat > LimbBase - 1 THEN LimbBase - 1 ELSE qhat)

\* <<quotient, remainder>> of (r * LimbBase^k + a[1..k]) by d, for r < d
RECURSIVE BDivRec(_, _, _, _, _)
BDivRec(a, k, d, r, q) ==
  IF k = 0 THEN <<BTrim(q), r>>
  ELSE LET r1 == BTrim(<<a[k]>> \o r)
           ql == BQuotLimb(r1, d)
       IN  BDivRec(a, k - 1, d, BSub(r1, BMulSmall(d, ql)), <<ql>> \o q)

\* <<a \div d, a % d>> for d # 0
BDivMod(a, d) ==
  LET sh == (LimbBits - (BBitLen(d) % LimbBits)) % LimbBits
      dn == BShl(d, sh)
      an == BShl(a, sh)
      qr == BDivRec(an, Len(an), dn, <<>>, <<>>)
  IN  <<qr[1], BShr(qr[2], sh)>>

(***************************************************************************)
(* IEEE-754 binary64 values: [k, s, e, m].  k = "num" is the value         *)
(* (-1)^s * m * 2^e with 2^52 <= m < 2^53; "zero", "nan" and "inf" carry   *)
(* m = <<>> and e = 0 (the sign of a zero is not kept: the pipeline never  *)
(* divides by a zero and compares zeros only with ==).                     *)
(***************************************************************************)
MantBits == 53

FZero == [k |-> "zero", s |-> 0, e |-> 0, m |-> <<>>]
FNaN  == [k |-> "nan",  s |-> 0, e |-> 0, m |-> <<>>]
FInf(sg) == [k |-> "inf", s |-> sg, e |-> 0, m |-> <<>>]

FNum(sg, E, m) == [k |-> "num", s |-> sg, e |-> E, m |-> m]

\* r has MantBits bits, or one more after a carry out of the rounding
FCarry(sg, E, r) ==
  IF BBitLen(r) > MantBits THEN FNum(sg, E + 1, BShr(r, 1)) ELSE FNum(sg, E, r)

FRoundKept(sg, E, kept, up) == FCarry(sg, E, IF up THEN BAdd(kept, <<1>>) ELSE kept)

\* d low bits of M are dropped: up when the first of them is 1 and either the
\* rest is not 0 or the last bit kept is 1
FRoundDrop(sg, M, E, sticky, d) ==
  FRoundKept(sg, E + d, BShr(M, d),
             BBit(M, d - 1) = 1 /\ (sticky \/ ~BLowZero(M, d - 1) \/ BBit(M, d) = 1))

FRoundLen(sg, M, E, sticky, L) ==
  IF L <= MantBits THEN FNum(sg, E - (MantBits - L), BShl(M, MantBits - L))
  ELSE FRoundDrop(sg, M, E, sticky, L - MantBits)

\* (-1)^sg * (M + f) * 2^E rounded to nearest, ties to even, where f = 0 when
\* sticky is FALSE and 0 < f < 1 otherwise (then M has more than 54 bits)
FRound(sg, M, E, sticky) ==
  IF Len(M) = 0 THEN FZero ELSE FRoundLen(sg, M, E, sticky, BBitLen(M))

\* float(n) for a Python or numpy integer n
FOfInt(n) ==
  IF n = 0 THEN FZero
  ELSE FRound(IF n < 0 THEN 1 ELSE 0, BOfInt(IF n < 0 THEN 0 - n ELSE n), 0, FALSE)

FNeg(x) == IF x.k \in {"num", "inf"} THEN [x EXCEPT !.s = 1 - x.s] ELSE x

FAbs(x) == IF x.k \in {"num", "inf"} THEN [x EXCEPT !.s = 0] ELSE x

\* (-1)^sx * X + (-1)^sy * Y, times 2^E, where c compares X with Y
FAddSigned(sx, X, sy, Y, E, c) ==
  IF sx # sy /\ c = 0 THEN FZero
  ELSE FRound(IF sx = sy \/ c > 0 THEN sx ELSE sy,
              IF sx = sy THEN BAdd(X, Y) ELSE IF c > 0 THEN BSub(X, Y) ELSE BSub(Y, X),
              E, FALSE)

FAddAligned(sx, X, sy, Y, E) == FAddSigned(sx, X, sy, Y, E, BCmp(X, Y))

\* x + y
FAdd(x, y) ==
  IF x.k = "nan" \/ y.k = "nan" THEN FNaN
  ELSE IF x.k = "inf" THEN (IF y.k = "inf" /\ y.s # x.s THEN FNaN ELSE x)
  ELSE IF y.k = "inf" THEN y
  ELSE IF x.k = "zero" THEN y
  ELSE IF y.k = "zero" THEN x
  ELSE IF x.e < y.e THEN FAddAligned(x.s, x.m, y.s, BShl(y.m, y.e - x.e), x.e)
  ELSE FAddAligned(x.s, BShl(x.m, x.e - y.e), y.s, y.m, y.e)

FSub(x, y) == FAdd(x, FNeg(y))

\* x * y
FMul(x, y) ==
  IF x.k = "nan" \/ y.k = "nan" THEN FNaN
  ELSE IF x.k = "inf" \/ y.k = "inf"
       THEN (IF x.k = "zero" \/ y.k = "zero" THEN FNaN ELSE FInf((x.s + y.s) % 2))
  ELSE IF x.k = "zero" \/ y.k = "zero" THEN FZero
  ELSE FRound((x.s + y.s) % 2, BMul(x.m, y.m), x.e + y.e, FALSE)

DivExtra == MantBits + 3

\* qr is the quotient and the remainder of the mantissas
FDivRound(sg, qr, E) == FRound(sg, qr[1], E, Len(qr[2]) # 0)

\* x / y
FDiv(x, y) ==
  IF x.k = "nan" \/ y.k = "nan" THEN FNaN
  ELSE IF x.k = "inf" THEN (IF y.k = "inf" THEN FNaN ELSE FInf((x.s + y.s) % 2))
  ELSE IF y.k = "inf" THEN FZero
  ELSE IF y.k = "zero" THEN (IF x.k = "zero" THEN FNaN ELSE FInf(x.s))
  ELSE IF x.k = "zero" THEN FZero
  ELSE FDivRound((x.s + y.s) % 2, BDivMod(BShl(x.m, DivExtra), y.m),
                 x.e - y.e - DivExtra)

\* x == y and x < y as numpy compares them (every comparison with NaN is False)
FEq(x, y) == x.k # "nan" /\ y.k # "nan" /\ x = y

FLt(x, y) ==
  /\ x.k # "nan" /\ y.k # "nan"
  /\ x # y
  /\ IF x.k = "inf" THEN x.s = 1
     ELSE IF y.k = "inf" THEN y.s = 0
     ELSE FSub(x, y).s = 1


(***************************************************************************)
(* Data.  The raw table `data` is a sequence of runs sorted by time: a run *)
(* [name, day, slot, n, ped_N, ped_S, ped_W, ped_E, vol_vehicle] stands    *)
(* for n consecutive 15-minute records of intersection `name` on calendar  *)
(* day `day` (days counted from start_date), the first at slot `slot` of   *)
(* the day (slot 0 is 00:00, slot 95 is 23:45), each with the same counts. *)
(***************************************************************************)
PedCols == <<"ped_N", "ped_S", "ped_W", "ped_E">>

Cols == <<"ped_N", "ped_S", "ped_W", "ped_E", "vol_vehicle">>

RECURSIVE SumCol(_, _)
SumCol(rows, col) ==
  IF Len(rows) = 0 THEN 0
  ELSE Head(rows)[col] * Head(rows).n + SumCol(Tail(rows), col)

RECURSIVE CountRecords(_)
CountRecords(rows) ==
  IF Len(rows) = 0 THEN 0 ELSE Head(rows).n + CountRecords(Tail(rows))

MinDay(rows) == CHOOSE d \in {rows[i].day : i \in 1..Len(rows)} :
                  \A i \in 1..Len(rows) : d <= rows[i].day

MaxDay(rows) == CHOOSE d \in {rows[i].day : i \in 1..Len(rows)} :
                  \A i \in 1..Len(rows) : d >= rows[i].day

\* data.loc[data['name'] == intersection_name, :]
ForIntersection(dat, name) == SelectSeq(dat, LAMBDA r : r.name = name)

(***************************************************************************)
(* get_24h_count_df, step by step.                                         *)
(***************************************************************************)
\* F1 and F2 of every 15-minute record
FlagRows(df, h15) ==
  [i \in 1..Len(df) |->
     [name |-> df[i].name, day |-> df[i].day, slot |-> df[i].slot, n |-> df[i].n,
      ped_N |-> df[i].ped_N, ped_S |-> df[i].ped_S, ped_W |-> df[i].ped_W,
      ped_E |-> df[i].ped_E, vol_vehicle |-> df[i].vol_vehicle,
      F1 |-> \A c \in 1..Len(Cols) : df[i][Cols[c]] = 0,
      F2 |-> \E c \in 1..Len(PedCols) : df[i][PedCols[c]] > h15]]

\* df_int.loc[(df_int.F1==False) & (df_int.F2==False), :]
UnflaggedRows(df) == SelectSeq(df, LAMBDA r : ~r.F1 /\ ~r.F2)

\* df.resample('D').sum() with num_valid_counts = counted.vol_vehicle.resample('D').count():
\* one row per calendar day from the first to the last day of df, the days
\* without a record included
ResampleD(df, counted) ==
  IF Len(df) = 0 THEN <<>>
  ELSE LET lo == MinDay(df)
           hi == MaxDay(df)
       IN  [k \in 1..(hi - lo + 1) |->
              LET d    == lo + k - 1
                  rows == SelectSeq(df, LAMBDA r : r.day = d)
              IN  [day |-> d,
                   ped_N |-> SumCol(rows, "ped_N"), ped_S |-> SumCol(rows, "ped_S"),
                   ped_W |-> SumCol(rows, "ped_W"), ped_E |-> SumCol(rows, "ped_E"),
                   vol_vehicle |-> SumCol(rows, "vol_vehicle"),
                   num_valid_counts |->
                     CountRecords(SelectSeq(counted, LAMBDA r : r.day = d))]]

\* The table after lines 135-137: the selection of the unflagged records is
\* assigned to df_int_24h and then overwritten by the resampling of df_int,
\* the table of all the records.
Daily24h(df_int) == ResampleD(df_int, df_int)

ExpectedIntervals == 96

\* column / num_valid_counts * 96
AdjustCount(v, num) == FMul(FDiv(FOfInt(v), FOfInt(num)), FOfInt(ExpectedIntervals))

AdjustCounts(t) ==
  [i \in 1..Len(t) |->
     [t[i] EXCEPT !.ped_N = AdjustCount(t[i].ped_N, t[i].num_valid_counts),
                  !.ped_S = AdjustCount(t[i].ped_S, t[i].num_valid_counts),
                  !.ped_W = AdjustCount(t[i].ped_W, t[i].num_valid_counts),
                  !.ped_E = AdjustCount(t[i].ped_E, t[i].num_valid_counts)]]

FlagDays(t, h24, t24) ==
  [i \in 1..Len(t) |->
     [day |-> t[i].day, ped_N |-> t[i].ped_N, ped_S |-> t[i].ped_S,
      ped_W |-> t[i].ped_W, ped_E |-> t[i].ped_E, vol_vehicle |-> t[i].vol_vehicle,
      num_valid_counts |-> t[i].num_valid_counts,
      F3 |-> t[i].num_valid_counts < t24,
      F4 |-> \E c \in 1..Len(PedCols) : FLt(FOfInt(h24), t[i][PedCols[c]])]]

ValidDays(t) == SelectSeq(t, LAMBDA r : ~r.F3 /\ ~r.F4)

get_24h_count_df(dat, name, h15, h24, t24) ==
  ValidDays(FlagDays(AdjustCounts(Daily24h(FlagRows(ForIntersection(dat, name), h15))),
                     h24, t24))

(***************************************************************************)
(* Calendar of the analysis period: day 0 is start_date, 2021-10-01, a     *)
(* Friday (pandas dayofweek 4, Monday being 0).                            *)
(***************************************************************************)
MonthLengths == <<31, 30, 31, 31, 28, 31, 30, 31, 30, 31, 31, 30>>

RECURSIVE MonthIndex(_, _)
MonthIndex(d, k) ==
  IF k >= Len(MonthLengths) \/ d < MonthLengths[k] THEN k
  ELSE MonthIndex(d - MonthLengths[k], k + 1)

\* index.month
Month(d) == ((9 + MonthIndex(d, 1) - 1) % 12) + 1

\* index.dayofweek
DayOfWeek(d) == (d + 4) % 7

\* unique(): the distinct values in the order of their first appearance
RECURSIVE Unique(_)
Unique(q) ==
  IF Len(q) = 0 THEN <<>>
  ELSE LET r == Unique(SubSeq(q, 1, Len(q) - 1))
           x == q[Len(q)]
       IN  IF \E j \in 1..Len(r) : r[j] = x THEN r ELSE Append(r, x)

(***************************************************************************)
(* get_AADPT and get_true_ratio                                            *)
(***************************************************************************)
\* sum(volumes): Python's sum, from the int 0, left to right
RECURSIVE FSum(_, _)
FSum(rows, col) ==
  IF Len(rows) = 0 THEN FZero
  ELSE FAdd(FSum(SubSeq(rows, 1, Len(rows) - 1), col), rows[Len(rows)][col])

\* mutant of StratumTerm: the sum of a stratum is not divided by its days
StratumTermOfSum(n_j, n_jm, n_jmd, sum_V_jmdi) ==
  FMul(FDiv(FDiv(FOfInt(1), FOfInt(n_j)), FOfInt(n_jm)), sum_V_jmdi)

\* 1/n_j * 1/n_jm * 1/n_jmd * sum_V_jmdi, evaluated left to right; the
\* multiplications by 1 are exact and left out
StratumTerm(n_j, n_jm, n_jmd, sum_V_jmdi) ==
  FMul(FDiv(FDiv(FDiv(FOfInt(1), FOfInt(n_j)), FOfInt(n_jm)), FOfInt(n_jmd)),
       sum_V_jmdi)

\* lines 184-185: the rows of one month and day of week
StratumRows(t, mo, dw) ==
  SelectSeq(t, LAMBDA r : Month(r.day) = mo /\ DayOfWeek(r.day) = dw)

\* lines 186-189: n_jmd = len(volumes); if n_jmd != 0: AADPT += ...
AddStratum(acc, n_j, n_jm, volumes, col) ==
  IF Len(volumes) # 0
  THEN FAdd(acc, StratumTerm(n_j, n_jm, Len(volumes), FSum(volumes, col)))
  ELSE acc

\* The loops of get_AADPT: p runs over the (month, weekday) pairs, the months
\* outermost, and acc is AADPT so far.
RECURSIVE AADPTLoop(_, _, _, _, _, _)
AADPTLoop(t, col, months, dayofweeks, p, acc) ==
  IF p > Len(months) * Len(dayofweeks) THEN acc
  ELSE AADPTLoop(t, col, months, dayofweeks, p + 1,
                 AddStratum(acc, Len(months), Len(dayofweeks),
                            StratumRows(t, months[((p - 1) \div Len(dayofweeks)) + 1],
                                        dayofweeks[((p - 1) % Len(dayofweeks)) + 1]),
                            col))

get_AADPT(t, col) ==
  AADPTLoop(t, col, Unique([i \in 1..Len(t) |-> Month(t[i].day)]),
            Unique([i \in 1..Len(t) |-> DayOfWeek(t[i].day)]), 1, FZero)

\* line 216: AADPT_tot = AADPT_N + AADPT_S + AADPT_W + AADPT_E
WithTotal(a) ==
  [ped_N |-> a.ped_N, ped_S |-> a.ped_S, ped_W |-> a.ped_W, ped_E |-> a.ped_E,
   tot |-> FAdd(FAdd(FAdd(a.ped_N, a.ped_S), a.ped_W), a.ped_E)]

\* lines 212-216: the four AADPT and their total
AADPTs(t) ==
  WithTotal([col \in {"ped_N", "ped_S", "ped_W", "ped_E"} |-> get_AADPT(t, col)])

\* mutant of TrueRatio: the guard against a zero total is missing
TrueRatioUnguarded(a, tot) == FDiv(a, tot)

\* 0 if AADPT_tot==0 else AADPT_x / AADPT_tot
TrueRatio(a, tot) == IF FEq(tot, FZero) THEN FZero ELSE FDiv(a, tot)

\* lines 224-225: the returned pair, as one record
RatioRecord(tot, r) ==
  [AADPT_tot |-> tot, ped_N |-> r.ped_N, ped_S |-> r.ped_S, ped_W |-> r.ped_W,
   ped_E |-> r.ped_E]

\* lines 218-225
RatiosOf(a) ==
  RatioRecord(a.tot, [col \in {"ped_N", "ped_S", "ped_W", "ped_E"} |->
                        TrueRatio(a[col], a.tot)])

get_true_ratio(t) == RatiosOf(AADPTs(t))

(***************************************************************************)
(* get_ratio_errors                                                        *)
(***************************************************************************)
\* the literals 0.0001 (0x1.a36e2eb1c432dp-14) and 0.25
Epsilon == [k |-> "num", s |-> 0, e |-> 0 - 66, m |-> <<813, 11377, 11822, 1677>>]

Quarter == FDiv(FOfInt(1), FOfInt(4))

One == FOfInt(1)

\* (ratio - ratio_true)/(ratio_true + 0.0001)
RatioErr(ratio, ratio_true) == FDiv(FSub(ratio, ratio_true), FAdd(ratio_true, Epsilon))

\* the four error columns, from the errors by direction
ErrRecord(e) ==
  [ratio_N_errs |-> e.ped_N, ratio_S_errs |-> e.ped_S, ratio_W_errs |-> e.ped_W,
   ratio_E_errs |-> e.ped_E]

\* The four errors of counts c (a day of df_int_8h, or the sum of a sample):
\* ratio_N = ped_N/total and so on, each against its true ratio
DirErrs(c, tr) ==
  ErrRecord([col \in {"ped_N", "ped_S", "ped_W", "ped_E"} |->
               RatioErr(FDiv(FOfInt(c[col]), FOfInt(c.total)), tr[col])])

WithAvg(d, avg) ==
  [ratio_N_errs |-> d.ratio_N_errs, ratio_S_errs |-> d.ratio_S_errs,
   ratio_W_errs |-> d.ratio_W_errs, ratio_E_errs |-> d.ratio_E_errs,
   ratio_avg_errs |-> avg]

\* lines 333-334: 0.25*(abs(E)+abs(W)+abs(N)+abs(N))
AvgErrOneDay(d) ==
  FMul(Quarter, FAdd(FAdd(FAdd(FAbs(d.ratio_E_errs), FAbs(d.ratio_W_errs)),
                          FAbs(d.ratio_N_errs)), FAbs(d.ratio_N_errs)))

\* lines 360-361: 0.25 * (abs(N) + abs(S) + abs(W) + abs(E))
AvgErrSample(d) ==
  FMul(Quarter, FAdd(FAdd(FAdd(FAbs(d.ratio_N_errs), FAbs(d.ratio_S_errs)),
                          FAbs(d.ratio_W_errs)), FAbs(d.ratio_E_errs)))

RowOneDay(d) == WithAvg(d, AvgErrOneDay(d))

\* stc_num == 1: one row per day of df_int_8h
ErrorsOneDay(df8, tr) == [i \in 1..Len(df8) |-> RowOneDay(DirErrs(df8[i], tr))]

RECURSIVE SumDrawn(_, _, _, _)
SumDrawn(df8, drawn, col, i) ==
  IF i > Len(df8) THEN 0
  ELSE (IF i \in drawn THEN df8[i][col] ELSE 0) + SumDrawn(df8, drawn, col, i + 1)

\* df_int_8h.sample(n=stc_num, replace=False).sum() for the drawn set of rows
SampleSum(df8, drawn) ==
  [ped_N |-> SumDrawn(df8, drawn, "ped_N", 1), ped_S |-> SumDrawn(df8, drawn, "ped_S", 1),
   ped_W |-> SumDrawn(df8, drawn, "ped_W", 1), ped_E |-> SumDrawn(df8, drawn, "ped_E", 1),
   total |-> SumDrawn(df8, drawn, "total", 1)]

\* one trial of the loop of lines 349-368
RowSample(d) == WithAvg(d, AvgErrSample(d))

TrialError(df8, drawn, tr) == RowSample(DirErrs(SampleSum(df8, drawn), tr))

\* the sets of rows sample(n=k, replace=False) can draw
Draws(df8, k) == {S \in SUBSET (1..Len(df8)) : Cardinality(S) = k}

(***************************************************************************)
(* get_8h_count_df                                                         *)
(***************************************************************************)
\* resample('H').sum(): the sum of the records of day d whose timestamp lies
\* in hour h (a 15-minute slot s lies in hour s \div 4)
RECURSIVE HourSum(_, _, _, _)
HourSum(df, d, h, col) ==
  IF Len(df) = 0 THEN 0
  ELSE LET r == Head(df)
           inHour == IF r.day = d
                     THEN Cardinality({x \in r.slot..(r.slot + r.n - 1) : x \div 4 = h})
                     ELSE 0
       IN  r[col] * inHour + HourSum(Tail(df), d, h, col)

\* between_time(lo, hi) on the hourly rows, whose timestamps are h:00:
\* both ends included
BetweenTime(h, lo, hi) == lo <= h /\ h <= hi

\* the three slices concatenated at lines 257-259
Windows == <<<<7, 9>>, <<11, 14>>, <<15, 18>>>>

RECURSIVE SumHours(_, _, _, _)
SumHours(df, d, col, hours) ==
  IF hours = {} THEN 0
  ELSE LET h == CHOOSE x \in hours : TRUE
       IN  HourSum(df, d, h, col) + SumHours(df, d, col, hours \ {h})

\* the daily sum over the concatenated slices: a row in two slices counts twice
WindowSum(df, d, col) ==
  LET W(w) == SumHours(df, d, col,
                       {h \in 0..23 : BetweenTime(h, Windows[w][1], Windows[w][2])})
  IN  W(1) + W(2) + W(3)

\* lines 253-262
Daily8h(df) ==
  IF Len(df) = 0 THEN <<>>
  ELSE LET lo == MinDay(df)
           hi == MaxDay(df)
       IN  [k \in 1..(hi - lo + 1) |->
              [day |-> lo + k - 1,
               ped_N |-> WindowSum(df, lo + k - 1, "ped_N"),
               ped_S |-> WindowSum(df, lo + k - 1, "ped_S"),
               ped_W |-> WindowSum(df, lo + k - 1, "ped_W"),
               ped_E |-> WindowSum(df, lo + k - 1, "ped_E"),
               vol_vehicle |-> WindowSum(df, lo + k - 1, "vol_vehicle")]]

ValidWeekdays == {1, 2, 3}

ValidMonths == {4, 5, 6, 9, 10, 11}

\* lines 264-266
KeepEligible(t) ==
  SelectSeq(t, LAMBDA r : DayOfWeek(r.day) \in ValidWeekdays /\ Month(r.day) \in ValidMonths)

\* the days of the months before the k-th month after start_date's
RECURSIVE DaysBefore(_)
DaysBefore(k) == IF k = 0 THEN 0 ELSE DaysBefore(k - 1) + MonthLengths[k]

\* The index value a holiday compares equal to: isin parses the strings of
\* the holiday file, 'YYYY-MM-DD' (here <<year, month, day>>), into dates.  A
\* date outside the analysis period equals no index value (-1).
DayOfDate(date) ==
  IF (date[1] - 2021) * 12 + date[2] - 10 \in 0..(Len(MonthLengths) - 1)
  THEN DaysBefore((date[1] - 2021) * 12 + date[2] - 10) + date[3] - 1
  ELSE 0 - 1

\* mutant of ExcludeHolidays: the negation of isin is missing
OnlyHolidays(t, hol) ==
  SelectSeq(t, LAMBDA r : \E j \in 1..Len(hol) : DayOfDate(hol[j]) = r.day)

\* line 269: ~index.isin(holidays); holidays is the sequence of the dates
\* read from the holiday file.
ExcludeHolidays(t, hol) ==
  SelectSeq(t, LAMBDA r : ~(\E j \in 1..Len(hol) : DayOfDate(hol[j]) = r.day))

\* lines 271-273
DropZeroTotal(t) ==
  SelectSeq([i \in 1..Len(t) |->
               [day |-> t[i].day, ped_N |-> t[i].ped_N, ped_S |-> t[i].ped_S,
                ped_W |-> t[i].ped_W, ped_E |-> t[i].ped_E,
                vol_vehicle |-> t[i].vol_vehicle,
                total |-> t[i].ped_N + t[i].ped_S + t[i].ped_W + t[i].ped_E]],
            LAMBDA r : r.total # 0)

get_8h_count_df(dat, name, hol) ==
  DropZeroTotal(ExcludeHolidays(KeepEligible(Daily8h(ForIntersection(dat, name))), hol))

(***************************************************************************)
(* get_confidence_interval                                                 *)
(***************************************************************************)
\* Newton's iteration for the integer square root: from r above the root,
\* (r + x \div r) \div 2 decreases until it reaches the largest r with r * r <= x
RECURSIVE BSqrtNewton(_, _)
BSqrtStep(x, r, next) == IF BCmp(next, r) >= 0 THEN r ELSE BSqrtNewton(x, next)

BSqrtNewton(x, r) == BSqrtStep(x, r, BShr(BAdd(r, BDivMod(x, r)[1]), 1))

BSqrt(x) ==
  IF Len(x) = 0 THEN <<>> ELSE BSqrtNewton(x, BShl(<<1>>, (BBitLen(x) + 1) \div 2))

SqrtExtra == MantBits + 5

\* R is the integer square root of M
FSqrtRound(R, M, E) == FRound(0, R, E, BCmp(BMul(R, R), M) # 0)

\* the square root of m * 2^e for an even e
FSqrtEven(m, e) ==
  FSqrtRound(BSqrt(BShl(m, SqrtExtra)), BShl(m, SqrtExtra), (e - SqrtExtra) \div 2)

\* np.sqrt(x)
FSqrt(x) ==
  IF x.k = "nan" THEN FNaN
  ELSE IF x.k = "zero" THEN FZero
  ELSE IF x.s = 1 THEN FNaN
  ELSE IF x.k = "inf" THEN x
  ELSE IF x.e % 2 = 0 THEN FSqrtEven(x.m, x.e)
  ELSE FSqrtEven(BShl(x.m, 1), x.e - 1)

\* m * 2^(-d) to the nearest integer, ties to even
FRintNum(sg, m, d) ==
  FRound(sg,
         IF BBit(m, d - 1) = 1 /\ (~BLowZero(m, d - 1) \/ BBit(m, d) = 1)
         THEN BAdd(BShr(m, d), <<1>>) ELSE BShr(m, d),
         0, FALSE)

\* np.rint(x)
FRint(x) == IF x.k # "num" \/ x.e >= 0 THEN x ELSE FRintNum(x.s, x.m, 0 - x.e)

\* round(x, 3) of a numpy float: x times 10**3, rint, divided by 10**3
Round3(x) == FDiv(FRint(FMul(x, FOfInt(1000))), FOfInt(1000))

RECURSIVE BToInt(_)
BToInt(x) == IF Len(x) = 0 THEN 0 ELSE x[1] + LimbBase * BToInt(Tail(x))

\* int(np.floor(x)) for x >= 0
FloorInt(x) ==
  IF x.k = "zero" THEN 0
  ELSE IF x.e >= 0 THEN BToInt(BShl(x.m, x.e))
  ELSE BToInt(BShr(x.m, 0 - x.e))

\* np.add.reduce of fewer than 8 values: from 0, left to right
RECURSIVE SumValues(_)
SumValues(v) ==
  IF Len(v) = 0 THEN FZero
  ELSE FAdd(SumValues(SubSeq(v, 1, Len(v) - 1)), v[Len(v)])

\* np.mean(errs)
Mean(v) == FDiv(SumValues(v), FOfInt(Len(v)))

Square(x) == FMul(x, x)

Deviations(v, mean) == [i \in 1..Len(v) |-> Square(FSub(v[i], mean))]

\* np.std(errs): sqrt(mean(abs(errs - mean)**2))
Std(v) == FSqrt(Mean(Deviations(v, Mean(v))))

RECURSIVE Insert(_, _)
Insert(sorted, x) ==
  IF Len(sorted) = 0 THEN <<x>>
  ELSE IF FLt(x, Head(sorted)) THEN <<x>> \o sorted
  ELSE <<Head(sorted)>> \o Insert(Tail(sorted), x)

RECURSIVE SortValues(_)
SortValues(v) == IF Len(v) = 0 THEN <<>> ELSE Insert(SortValues(Tail(v)), Head(v))

Half == FDiv(FOfInt(1), FOfInt(2))

\* numpy's _lerp: a + (b - a) * t, and b - (b - a) * (1 - t) where t >= 0.5
Lerp(a, b, t) ==
  IF FLt(t, Half) THEN FAdd(a, FMul(FSub(b, a), t))
  ELSE FSub(b, FMul(FSub(b, a), FSub(One, t)))

\* the interpolation between the values around the virtual index
PercentileLerp(sorted, n, previous, virtual) ==
  Lerp(sorted[previous + 1], sorted[IF previous + 2 > n THEN n ELSE previous + 2],
       FSub(virtual, FOfInt(previous)))

PercentileAt(sorted, n, virtual) == PercentileLerp(sorted, n, FloorInt(virtual), virtual)

\* np.percentile(errs, percentile), method linear: the virtual index is
\* (n - 1) * (percentile / 100); NaN on an empty array
Percentile(v, percentile) ==
  IF Len(v) = 0 THEN FNaN
  ELSE PercentileAt(SortValues(v), Len(v),
                    FMul(FOfInt(Len(v) - 1), FDiv(FOfInt(percentile), FOfInt(100))))

\* the literal 1.65 (0x1.a666666666666p+0)
Zstar == [k |-> "num", s |-> 0, e |-> 0 - 52, m |-> <<9830, 6553, 9830, 1689>>]

\* lines 404-410: lcb, mean, ucb, nth_percentile, each rounded
Bounds(mean, sd, nth_percentile) ==
  <<Round3(FSub(mean, FMul(Zstar, sd))), Round3(mean),
    Round3(FAdd(mean, FMul(Zstar, sd))), Round3(nth_percentile)>>

get_confidence_interval(v, percentile) ==
  Bounds(Mean(v), Std(v), Percentile(v, percentile))

(***************************************************************************)
(* State.  The names are those of the source: the arguments and the        *)
(* locals of the function a specification runs, and the locals of main.    *)
(***************************************************************************)
VARIABLES
  pc,            \* the place in the function (or in main) that runs next
  data,          \* the raw table
  holidays,      \* the holiday dates
  H15, H24, T24, \* --Max15min, --Max24h, --Min24h
  stc_num,       \* --stc-num
  repeat,        \* --repeat
  df_int,        \* get_24h_count_df: the records of the intersection, flagged
  df_int_24h,    \* the daily table
  aadpt,         \* get_true_ratio: AADPT_N, AADPT_S, AADPT_W, AADPT_E, AADPT_tot
  true_ratio,    \* the result of get_true_ratio
  df_int_8h,     \* the short-term table
  errs,          \* get_ratio_errors: the rows of error_df
  draws,         \* history: the set of rows each sample() call drew
  valid_intersections, \* main: the names read from the intersection file
  loop_i,        \* main: the position of the for loop in valid_intersections
  res,           \* main: the row of the intersection in progress
  res_list,      \* main: the rows recorded
  error_df,      \* main: the error samples recorded
  int_counter    \* main: the number of intersections recorded

vars == <<pc, data, holidays, H15, H24, T24, stc_num, repeat, df_int, df_int_24h,
          aadpt, true_ratio, df_int_8h, errs, draws, valid_intersections, loop_i,
          res, res_list, error_df, int_counter>>

params == <<data, holidays, H15, H24, T24, stc_num, repeat>>

ratioVars == <<aadpt, true_ratio>>

errVars == <<df_int_8h, errs, draws>>

mainVars == <<valid_intersections, loop_i, res, res_list, error_df, int_counter>>

None == <<>>

\* main is not running: a function is called on its own
NoMain ==
  /\ valid_intersections = None /\ loop_i = 0 /\ res = None /\ res_list = None
  /\ error_df = None /\ int_counter = 0

(***************************************************************************)
(* SpecAgg: get_24h_count_df on the records of one intersection.           *)
(***************************************************************************)
MaxCount == 2

\* the counts of one 15-minute record
AggRecVals ==
  {[ped_N |-> a, ped_S |-> 0, ped_W |-> 0, ped_E |-> b, vol_vehicle |-> v] :
     a \in 0..MaxCount, b \in {0, MaxCount}, v \in 0..1}

\* a run of 1 or of 48 records; 48 records are half a day
AggRunLens == {1, 48}

Run(name, day, slot, n, c) ==
  [name |-> name, day |-> day, slot |-> slot, n |-> n, ped_N |-> c.ped_N,
   ped_S |-> c.ped_S, ped_W |-> c.ped_W, ped_E |-> c.ped_E,
   vol_vehicle |-> c.vol_vehicle]

HalfDay(day, slot) ==
  {<<>>} \cup {<<Run("A", day, slot, n, c)>> : n \in AggRunLens, c \in AggRecVals}

OneRecord == [ped_N |-> 1, ped_S |-> 0, ped_W |-> 0, ped_E |-> 0, vol_vehicle |-> 1]

\* what follows the first day: nothing, a record of another intersection, or
\* a record two days later (the day between has no record)
AggTails == {<<>>, <<Run("B", 1, 95, 1, OneRecord)>>, <<Run("A", 3, 0, 1, OneRecord)>>}

AggInputs == {a \o b \o c : a \in HalfDay(1, 0), b \in HalfDay(1, 48), c \in AggTails}

AggH15 == {1, 100}
AggH24 == {100, 500}
AggT24 == {2, 72}

InitAgg ==
  /\ pc = "flag_records"
  /\ data \in AggInputs
  /\ holidays = None
  /\ H15 \in AggH15 /\ H24 \in AggH24 /\ T24 \in AggT24
  /\ stc_num = 1 /\ repeat = 1
  /\ df_int = None /\ df_int_24h = None /\ aadpt = None /\ true_ratio = None
  /\ df_int_8h = None /\ errs = None /\ draws = None
  /\ NoMain

\* lines 122-131
FlagRecords ==
  /\ pc = "flag_records"
  /\ df_int' = FlagRows(ForIntersection(data, "A"), H15)
  /\ pc' = "resample"
  /\ UNCHANGED <<mainVars, params, df_int_24h, ratioVars, errVars>>

\* lines 134-137
Resample ==
  /\ pc = "resample"
  /\ df_int_24h' = Daily24h(df_int)
  /\ pc' = "adjust"
  /\ UNCHANGED <<mainVars, params, df_int, ratioVars, errVars>>

\* lines 139-143
Adjust ==
  /\ pc = "adjust"
  /\ df_int_24h' = AdjustCounts(df_int_24h)
  /\ pc' = "flag_days"
  /\ UNCHANGED <<mainVars, params, df_int, ratioVars, errVars>>

\* lines 145-149
FlagDaily ==
  /\ pc = "flag_days"
  /\ df_int_24h' = FlagDays(df_int_24h, H24, T24)
  /\ pc' = "return_24h"
  /\ UNCHANGED <<mainVars, params, df_int, ratioVars, errVars>>

\* line 158
Return24h ==
  /\ pc = "return_24h"
  /\ df_int_24h' = ValidDays(df_int_24h)
  /\ pc' = "returned_24h"
  /\ UNCHANGED <<mainVars, params, df_int, ratioVars, errVars>>

NextAgg == FlagRecords \/ Resample \/ Adjust \/ FlagDaily \/ Return24h

SpecAgg == InitAgg /\ [][NextAgg]_vars

(***************************************************************************)
(* Claims about get_24h_count_df                                           *)
(***************************************************************************)
\* The records of day d that are neither F1 (all five counts 0) nor F2 (a
\* directional count above H15), read from the input table.
IsF1(r) == r.ped_N = 0 /\ r.ped_S = 0 /\ r.ped_W = 0 /\ r.ped_E = 0 /\ r.vol_vehicle = 0

IsF2(r) == r.ped_N > H15 \/ r.ped_S > H15 \/ r.ped_W > H15 \/ r.ped_E > H15

ValidRecords(d) ==
  SelectSeq(data, LAMBDA r : r.name = "A" /\ r.day = d /\ ~IsF1(r) /\ ~IsF2(r))

\* C1: a 15-minute record flagged F1 or F2 is excluded: the sums and
\* num_valid_counts of every day are those of its unflagged records alone.
C1_FlaggedRecordsExcluded ==
  pc = "adjust" =>
    \A i \in 1..Len(df_int_24h) :
      LET r == df_int_24h[i]
          v == ValidRecords(r.day)
      IN  /\ r.num_valid_counts = CountRecords(v)
          /\ \A c \in 1..Len(Cols) : r[Cols[c]] = SumCol(v, Cols[c])

\* C2: a day with fewer than T24 unflagged records is flagged by F3 and is
\* absent from the returned table.
C2_UndercoveredDaysDropped ==
  /\ pc = "return_24h" =>
       \A i \in 1..Len(df_int_24h) :
         CountRecords(ValidRecords(df_int_24h[i].day)) < T24 => df_int_24h[i].F3
  /\ pc = "returned_24h" =>
       \A i \in 1..Len(df_int_24h) :
         CountRecords(ValidRecords(df_int_24h[i].day)) >= T24

\* C3: the adjusted volume of a direction is the sum of the day's unflagged
\* records times 96 divided by their number (in either order of evaluation);
\* 48 unflagged records of count c each give 96c.
C3_AdjustedByValidCount ==
  pc = "flag_days" =>
    \A i \in 1..Len(df_int_24h) : \A c \in 1..Len(PedCols) :
      LET r   == df_int_24h[i]
          v   == ValidRecords(r.day)
          n   == CountRecords(v)
          sum == SumCol(v, PedCols[c])
      IN  /\ n > 0 =>
               \/ r[PedCols[c]] = FMul(FDiv(FOfInt(sum), FOfInt(n)), FOfInt(96))
               \/ r[PedCols[c]] = FDiv(FMul(FOfInt(sum), FOfInt(96)), FOfInt(n))
          /\ (n = 48 /\ \A j \in 1..Len(v) : v[j][PedCols[c]] = v[1][PedCols[c]])
               => r[PedCols[c]] = FOfInt(96 * v[1][PedCols[c]])

(***************************************************************************)
(* SpecRatio: get_true_ratio on a table of valid daily volumes.            *)
(***************************************************************************)
MaxVol == 2

DayRow(day, N, S, W, E) ==
  [day |-> day, ped_N |-> FOfInt(N), ped_S |-> FOfInt(S), ped_W |-> FOfInt(W),
   ped_E |-> FOfInt(E)]

\* Tuesday 2021-10-05, and what a second day can be: the Tuesday after (the
\* same month and weekday), the Wednesday after (another weekday), a Tuesday
\* of November (another month)
FirstDay == 1 + 3

SecondDays == {FirstDay + 7, FirstDay + 8, FirstDay + 28}

SecondRows == {<<0, 0, 0, 0>>, <<MaxVol, 0, 1, 1>>}

RatioTables ==
  {<<>>}
  \cup {<<DayRow(FirstDay, a, b, c, d)>> : a \in 0..MaxVol, b \in 0..MaxVol,
                                         c \in 0..MaxVol, d \in 0..MaxVol}
  \cup {<<DayRow(FirstDay, a, b, c, d), DayRow(x, r[1], r[2], r[3], r[4])>> :
          a \in 0..MaxVol, b \in 0..MaxVol, c \in {0, MaxVol}, d \in 0..1,
          x \in SecondDays, r \in SecondRows}

InitRatio ==
  /\ pc = "aadpt"
  /\ df_int_24h \in RatioTables
  /\ data = None /\ holidays = None
  /\ H15 = 100 /\ H24 = 500 /\ T24 = 72 /\ stc_num = 1 /\ repeat = 1
  /\ df_int = None /\ aadpt = None /\ true_ratio = None
  /\ df_int_8h = None /\ errs = None /\ draws = None
  /\ NoMain

\* lines 211-216
ComputeAADPT ==
  /\ pc = "aadpt"
  /\ aadpt' = AADPTs(df_int_24h)
  /\ pc' = "ratios"
  /\ UNCHANGED <<mainVars, params, df_int, df_int_24h, true_ratio, errVars>>

\* lines 218-225
ComputeRatios ==
  /\ pc = "ratios"
  /\ true_ratio' = RatiosOf(aadpt)
  /\ pc' = "ratio_returned"
  /\ UNCHANGED <<mainVars, params, df_int, df_int_24h, aadpt, errVars>>

NextRatio == ComputeAADPT \/ ComputeRatios

SpecRatio == InitRatio /\ [][NextRatio]_vars

(***************************************************************************)
(* get_ratio_errors, and SpecErr: get_ratio_errors on a short-term table,  *)
(* a table of valid daily volumes, stc_num and repeat.                     *)
(***************************************************************************)
\* line 315
ErrTrueRatio ==
  /\ pc = "err_call"
  /\ \E a \in {AADPTs(df_int_24h)} : true_ratio' = RatiosOf(a)
  /\ errs' = <<>>
  /\ draws' = <<>>
  /\ pc' = IF stc_num = 1 THEN "one_day" ELSE "trials"
  /\ UNCHANGED <<mainVars, params, df_int, df_int_24h, aadpt, df_int_8h>>

\* lines 320-340
ErrOneDay ==
  /\ pc = "one_day"
  /\ errs' = ErrorsOneDay(df_int_8h, true_ratio)
  /\ pc' = "build"
  /\ UNCHANGED <<mainVars, params, df_int, df_int_24h, ratioVars, df_int_8h, draws>>

\* lines 349-368, one pass of the loop; sample() draws any stc_num rows
ErrTrial ==
  /\ pc = "trials"
  /\ Len(errs) < repeat
  /\ \E S \in Draws(df_int_8h, stc_num) :
       /\ errs' = Append(errs, TrialError(df_int_8h, S, true_ratio))
       /\ draws' = Append(draws, S)
  /\ UNCHANGED <<mainVars, pc, params, df_int, df_int_24h, ratioVars, df_int_8h>>

\* line 351: sample() raises ValueError ("Cannot take a larger sample than
\* population when 'replace=False'")
ErrTrialRaise ==
  /\ pc = "trials"
  /\ Len(errs) < repeat
  /\ stc_num > Len(df_int_8h)
  /\ pc' = "raised"
  /\ UNCHANGED <<mainVars, params, df_int, df_int_24h, ratioVars, errVars>>

\* line 349: range(repeat) is exhausted
ErrLoopDone ==
  /\ pc = "trials"
  /\ Len(errs) >= repeat
  /\ pc' = "build"
  /\ UNCHANGED <<mainVars, params, df_int, df_int_24h, ratioVars, errVars>>

\* lines 370-378
ErrReturn ==
  /\ pc = "build"
  /\ pc' = "err_returned"
  /\ UNCHANGED <<mainVars, params, df_int, df_int_24h, ratioVars, errVars>>

NextErr == ErrTrueRatio \/ ErrOneDay \/ ErrTrial \/ ErrTrialRaise \/ ErrLoopDone \/ ErrReturn

MaxPed == 2
MaxDays8 == 3
MaxStc == 3
MaxRepeat == 2

StcRow(day, N, S, W, E) ==
  [day |-> day, ped_N |-> N, ped_S |-> S, ped_W |-> W, ped_E |-> E,
   vol_vehicle |-> 0, total |-> N + S + W + E]

\* the counts of a short-term day: its total is never 0
StcCounts == {<<MaxPed, 0, 0, 0>>, <<0, 1, 0, 0>>, <<1, 1, MaxPed, 1>>}

\* the days from Tuesday 2021-10-05 on
RECURSIVE StcTables(_)
StcTables(n) ==
  IF n = 0 THEN {<<>>}
  ELSE LET shorter == StcTables(n - 1)
       IN  shorter \cup {Append(t, StcRow(FirstDay + Len(t), c[1], c[2], c[3], c[4])) :
                           t \in {u \in shorter : Len(u) = n - 1}, c \in StcCounts}

ErrTables24 ==
  {<<>>, <<DayRow(FirstDay, 2, 1, 1, 0)>>, <<DayRow(FirstDay, 1, 2, 2, 1)>>}

InitErr ==
  /\ pc = "err_call"
  /\ df_int_24h \in ErrTables24
  /\ df_int_8h \in StcTables(MaxDays8)
  /\ stc_num \in 1..MaxStc
  /\ repeat \in 0..MaxRepeat
  /\ data = None /\ holidays = None /\ H15 = 100 /\ H24 = 500 /\ T24 = 72
  /\ df_int = None /\ aadpt = None /\ true_ratio = None
  /\ errs = None /\ draws = None
  /\ NoMain

SpecErr == InitErr /\ [][NextErr]_vars

(***************************************************************************)
(* Claims about get_true_ratio                                             *)
(***************************************************************************)
\* 2^-50, eight units in the last place of a value just below 1
SumTolerance == FDiv(One, FMul(FOfInt(2 ^ 25), FOfInt(2 ^ 25)))

RatioSum(t) == FAdd(FAdd(FAdd(t.ped_N, t.ped_S), t.ped_W), t.ped_E)

Defined(x) == x.k \in {"zero", "num"}

\* C8 as stated: the four ratios sum to exactly 1 when the total AADPT is not
\* 0, all four are 0 when it is 0, and none is undefined.
C8_RatiosSumExactlyToOne ==
  pc = "ratio_returned" =>
    /\ \A c \in 1..Len(PedCols) : Defined(true_ratio[PedCols[c]])
    /\ FEq(true_ratio.AADPT_tot, FZero) =>
         \A c \in 1..Len(PedCols) : true_ratio[PedCols[c]] = FZero
    /\ ~FEq(true_ratio.AADPT_tot, FZero) => FEq(RatioSum(true_ratio), One)

\* C8, amended: the four ratios sum to 1 within 2^-50 when the total AADPT is
\* not 0, all four are exactly 0 when it is 0, and none is undefined.
C8_RatiosSumToOneWithinRounding ==
  pc = "ratio_returned" =>
    /\ \A c \in 1..Len(PedCols) : Defined(true_ratio[PedCols[c]])
    /\ FEq(true_ratio.AADPT_tot, FZero) =>
         \A c \in 1..Len(PedCols) : true_ratio[PedCols[c]] = FZero
    /\ ~FEq(true_ratio.AADPT_tot, FZero) =>
         ~FLt(SumTolerance, FAbs(FSub(RatioSum(true_ratio), One)))

\* a table of two days whose total is not 0 and whose ratios do not sum to 1
C8_Witness ==
  /\ pc = "ratio_returned"
  /\ Len(df_int_24h) = 2
  /\ ~FEq(true_ratio.AADPT_tot, FZero)
  /\ ~FEq(RatioSum(true_ratio), One)

(***************************************************************************)
(* Claims about get_ratio_errors                                           *)
(***************************************************************************)
\* C4: called with stc_num above the number of eligible days, the function
\* raises: it never comes to build and return an error table.
C4_TooFewDaysRaises ==
  (stc_num >= 1 /\ stc_num > Len(df_int_8h)) => pc \notin {"build", "err_returned"}

AvgOfFour(a, b, c, d) == FMul(Quarter, FAdd(FAdd(FAdd(a, b), c), d))

\* a quarter of the sum of the four absolute errors, in any order of addition
QuarterSums(r) ==
  LET v == <<FAbs(r.ratio_N_errs), FAbs(r.ratio_S_errs), FAbs(r.ratio_W_errs),
             FAbs(r.ratio_E_errs)>>
  IN  {AvgOfFour(v[q[1]], v[q[2]], v[q[3]], v[q[4]]) :
         q \in {f \in [1..4 -> 1..4] : \A x, y \in 1..4 : x # y => f[x] # f[y]}}

\* C10: every entry of ratio_avg_errs is a quarter of the sum of the absolute
\* values of the four directional errors of its row, for stc_num = 1 and above.
C10_AvgOfFourDirections ==
  pc = "err_returned" =>
    \A i \in 1..Len(errs) : errs[i].ratio_avg_errs \in QuarterSums(errs[i])

(***************************************************************************)
(* SpecScenario: main's sequence for one intersection (get_true_ratio,     *)
(* then get_ratio_errors) on ten valid days that all have ped_N = 100 and  *)
(* no other pedestrians.                                                   *)
(***************************************************************************)
Spare == 1

\* the Tuesdays, Wednesdays and Thursdays from Tuesday 2021-10-19 on
ScenarioDate(i) == 18 + 7 * ((i - 1) \div 3) + ((i - 1) % 3)

Nth(S, i) == CHOOSE x \in S : Cardinality({y \in S : y < x}) = i - 1

\* every choice of ten of the first 10 + Spare dates
ScenarioTables ==
  {[i \in 1..10 |-> DayRow(ScenarioDate(Nth(S, i)), 100, 0, 0, 0)] :
     S \in {T \in SUBSET (1..(10 + Spare)) : Cardinality(T) = 10}}

\* short-term tables with stc_num and repeat: days where all pedestrians
\* cross N, and a day where some cross S
ScenarioStc ==
  {[t |-> <<StcRow(FirstDay, 3, 0, 0, 0)>>, k |-> 1, rep |-> 1],
   [t |-> <<StcRow(FirstDay, 3, 0, 0, 0)>>, k |-> 2, rep |-> 1],
   [t |-> <<StcRow(FirstDay, 3, 0, 0, 0), StcRow(FirstDay + 1, 1, 1, 0, 0)>>,
    k |-> 1, rep |-> 1],
   [t |-> <<StcRow(FirstDay, 3, 0, 0, 0), StcRow(FirstDay + 1, 2, 0, 0, 0)>>,
    k |-> 2, rep |-> 1],
   [t |-> <<StcRow(FirstDay, 3, 0, 0, 0), StcRow(FirstDay + 1, 2, 0, 0, 0),
            StcRow(FirstDay + 2, 1, 1, 0, 0)>>, k |-> 2, rep |-> 2]}

InitScenario ==
  /\ pc = "aadpt"
  /\ df_int_24h \in ScenarioTables
  /\ \E c \in ScenarioStc : df_int_8h = c.t /\ stc_num = c.k /\ repeat = c.rep
  /\ data = None /\ holidays = None /\ H15 = 100 /\ H24 = 500 /\ T24 = 72
  /\ df_int = None /\ aadpt = None /\ true_ratio = None
  /\ errs = None /\ draws = None
  /\ NoMain

\* main: get_ratio_errors is called once get_true_ratio has returned
CallRatioErrors ==
  /\ pc = "ratio_returned"
  /\ pc' = "err_call"
  /\ UNCHANGED <<mainVars, params, df_int, df_int_24h, ratioVars, errVars>>

NextScenario == NextRatio \/ CallRatioErrors \/ NextErr

SpecScenario == InitScenario /\ [][NextScenario]_vars

(***************************************************************************)
(* Claims about the scenario                                               *)
(***************************************************************************)
Hundred == FOfInt(100)

ScenarioCase ==
  /\ Len(df_int_24h) = 10
  /\ \A i \in 1..10 : /\ df_int_24h[i].ped_N = Hundred
                      /\ df_int_24h[i].ped_S = FZero
                      /\ df_int_24h[i].ped_W = FZero
                      /\ df_int_24h[i].ped_E = FZero

MonthsOf(t) == {Month(t[i].day) : i \in 1..Len(t)}

WeekdaysOf(t) == {DayOfWeek(t[i].day) : i \in 1..Len(t)}

StrataOf(t) == {<<Month(t[i].day), DayOfWeek(t[i].day)>> : i \in 1..Len(t)}

\* the rows of df_int_8h behind row i of the error table
SampleDays(i) == IF stc_num = 1 THEN {i} ELSE draws[i]

AllNorth(i) == \A j \in SampleDays(i) : df_int_8h[j].ped_N = df_int_8h[j].total

OthersZeroAndRatios ==
  /\ pc # "aadpt" =>
       aadpt.ped_S = FZero /\ aadpt.ped_W = FZero /\ aadpt.ped_E = FZero
  /\ pc \notin {"aadpt", "ratios"} =>
       /\ true_ratio.ped_N = One
       /\ true_ratio.ped_S = FZero /\ true_ratio.ped_W = FZero
       /\ true_ratio.ped_E = FZero
  /\ pc = "err_returned" =>
       \A i \in 1..Len(errs) : AllNorth(i) => errs[i].ratio_N_errs = FZero

AADPTTolerance == FDiv(One, FOfInt(2 ^ 30))

MaxRuns8 == 2

\* Tuesday 2021-11-30, Wednesday 2021-12-01, Saturday 2021-12-04
Days8 == {60, 61, 64}

\* 07:00, 09:45, 10:00 and 18:45
Slots8 == {28, 39, 40, 75}

NoPedestrian == [ped_N |-> 0, ped_S |-> 0, ped_W |-> 0, ped_E |-> 0, vol_vehicle |-> 1]

\* single records; those of "B" are one pedestrian at 07:00
Records8 ==
  {Run("A", d, sl, 1, c) : d \in Days8, sl \in Slots8, c \in {OneRecord, NoPedestrian}}
  \cup {Run("B", d, 28, 1, OneRecord) : d \in Days8}

Before(r, q) ==
  \/ r.day < q.day
  \/ r.day = q.day /\ r.slot < q.slot
  \/ r.day = q.day /\ r.slot = q.slot /\ r.name = "A" /\ q.name = "B"

\* the tables of up to n records, in the order of their index
RECURSIVE Inputs8(_)
Inputs8(n) ==
  IF n = 0 THEN {<<>>}
  ELSE LET shorter == Inputs8(n - 1)
       IN  shorter \cup UNION {{Append(t, r) :
                                   r \in {q \in Records8 :
                                            \A i \in 1..(n - 1) : Before(t[i], q)}} :
                                t \in {u \in shorter : Len(u) = n - 1}}

\* what the holiday file can hold: a date of the next year is not a holiday
\* of the analysis period
HolidayLists ==
  {<<>>, <<<<2021, 11, 30>>>>, <<<<2021, 12, 1>>, <<2021, 11, 30>>>>, <<<<2022, 11, 30>>>>}

Init8h ==
  /\ pc = "windows"
  /\ data \in Inputs8(MaxRuns8)
  /\ holidays \in HolidayLists
  /\ H15 = 100 /\ H24 = 500 /\ T24 = 72 /\ stc_num = 1 /\ repeat = 1
  /\ df_int = None /\ df_int_24h = None /\ aadpt = None /\ true_ratio = None
  /\ df_int_8h = None /\ errs = None /\ draws = None
  /\ NoMain

\* lines 251-262
Windows8h ==
  /\ pc = "windows"
  /\ df_int_8h' = Daily8h(ForIntersection(data, "A"))
  /\ pc' = "eligible"
  /\ UNCHANGED <<mainVars, params, df_int, df_int_24h, ratioVars, errs, draws>>

\* lines 265-266
Eligible8h ==
  /\ pc = "eligible"
  /\ df_int_8h' = KeepEligible(df_int_8h)
  /\ pc' = "holidays"
  /\ UNCHANGED <<mainVars, params, df_int, df_int_24h, ratioVars, errs, draws>>

\* line 269
Holidays8h ==
  /\ pc = "holidays"
  /\ df_int_8h' = ExcludeHolidays(df_int_8h, holidays)
  /\ pc' = "total"
  /\ UNCHANGED <<mainVars, params, df_int, df_int_24h, ratioVars, errs, draws>>

\* lines 272-273 and the return
Total8h ==
  /\ pc = "total"
  /\ df_int_8h' = DropZeroTotal(df_int_8h)
  /\ pc' = "returned_8h"
  /\ UNCHANGED <<mainVars, params, df_int, df_int_24h, ratioVars, errs, draws>>

Next8h == Windows8h \/ Eligible8h \/ Holidays8h \/ Total8h

Spec8h == Init8h /\ [][Next8h]_vars

(***************************************************************************)
(* Claims about get_8h_count_df                                            *)
(***************************************************************************)
HolidayDays == {DayOfDate(holidays[j]) : j \in 1..Len(holidays)}

\* C9: no day whose date is in the holiday list is in the table that
\* get_8h_count_df returns.
C9_HolidaysExcluded ==
  pc = "returned_8h" =>
    \A i \in 1..Len(df_int_8h) : df_int_8h[i].day \notin HolidayDays

\* the function has returned for a holiday on an eligible weekday of an
\* eligible month on which the intersection has a pedestrian in the windows
C9_Witness ==
  /\ pc = "returned_8h"
  /\ \E d \in HolidayDays :
       /\ DayOfWeek(d) \in ValidWeekdays
       /\ Month(d) \in ValidMonths
       /\ WindowSum(ForIntersection(data, "A"), d, "ped_N") > 0

(***************************************************************************)
(* main: the loop over valid_intersections, and SpecMain.                  *)
(***************************************************************************)
\* --percentile
nth_percentile == 85

ErrCols == <<"ratio_avg_errs", "ratio_N_errs", "ratio_S_errs", "ratio_W_errs",
             "ratio_E_errs">>

\* error_df_int[col].values
Column(e, col) == [i \in 1..Len(e) |-> e[i][col]]

\* lines 103-106: LB, AVG, UB, nth_per of every column
Intervals(e) ==
  [c \in 1..Len(ErrCols) |-> get_confidence_interval(Column(e, ErrCols[c]), nth_percentile)]

RECURSIVE Flatten(_)
Flatten(q) == IF Len(q) = 0 THEN <<>> ELSE Head(q) \o Flatten(Tail(q))

\* line 98: error_df_int['intersection'] = intersection_name
WithIntersection(e, name) == [i \in 1..Len(e) |-> [intersection |-> name] @@ e[i]]

\* lines 66-78
MainTrueRatio ==
  /\ pc = "loop"
  /\ loop_i <= Len(valid_intersections)
  /\ \E t \in {get_24h_count_df(data, valid_intersections[loop_i], H15, H24, T24)} :
       \E a \in {AADPTs(t)} :
         \E r \in {RatiosOf(a)} :
           /\ df_int_24h' = t
           /\ aadpt' = a
           /\ true_ratio' = r
           /\ res' = <<valid_intersections[loop_i], Len(t), r.AADPT_tot, r.ped_N,
                       r.ped_S, r.ped_W, r.ped_E>>
  /\ pc' = "stc"
  /\ UNCHANGED <<params, df_int, errVars, valid_intersections, loop_i, res_list,
                 error_df, int_counter>>

\* lines 81-85
Main8h ==
  /\ pc = "stc"
  /\ df_int_8h' = get_8h_count_df(data, valid_intersections[loop_i], holidays)
  /\ pc' = "check_stc"
  /\ UNCHANGED <<mainVars, params, df_int, df_int_24h, ratioVars, errs, draws>>

\* lines 86-87: continue
MainSkip ==
  /\ pc = "check_stc"
  /\ Len(df_int_8h) = 0
  /\ loop_i' = loop_i + 1
  /\ pc' = "loop"
  /\ UNCHANGED <<params, df_int, df_int_24h, ratioVars, errVars, valid_intersections,
                 res, res_list, error_df, int_counter>>

\* lines 90-96: the call of get_ratio_errors
MainCallErrors ==
  /\ pc = "check_stc"
  /\ Len(df_int_8h) # 0
  /\ res' = Append(res, Len(df_int_8h))
  /\ pc' = "err_call"
  /\ UNCHANGED <<params, df_int, df_int_24h, ratioVars, errVars, valid_intersections,
                 loop_i, res_list, error_df, int_counter>>

\* lines 98-114, once get_ratio_errors has returned
MainRecord ==
  /\ pc = "err_returned"
  /\ loop_i >= 1
  /\ error_df' = error_df \o WithIntersection(errs, valid_intersections[loop_i])
  /\ \E row \in {res \o Flatten(Intervals(errs))} :
       /\ res' = row
       /\ res_list' = Append(res_list, row)
  /\ int_counter' = int_counter + 1
  /\ loop_i' = loop_i + 1
  /\ pc' = "loop"
  /\ UNCHANGED <<params, df_int, df_int_24h, ratioVars, errVars, valid_intersections>>

\* lines 117-134: the loop is over, the tables are written
MainWrite ==
  /\ pc = "loop"
  /\ loop_i > Len(valid_intersections)
  /\ pc' = "written"
  /\ UNCHANGED <<mainVars, params, df_int, df_int_24h, ratioVars, errVars>>

NextMain ==
  MainTrueRatio \/ Main8h \/ MainSkip \/ MainCallErrors \/ NextErr \/ MainRecord
  \/ MainWrite

SouthRecord == [ped_N |-> 1, ped_S |-> 1, ped_W |-> 0, ped_E |-> 0, vol_vehicle |-> 0]

\* The records an intersection can have: none; all of Tuesday 2021-10-05 and
\* of the Wednesday after; all of that Tuesday; four records of it from 07:00;
\* all of Saturday 2021-10-09.
Profiles(name) ==
  {<<>>,
   <<Run(name, FirstDay, 0, ExpectedIntervals, OneRecord),
     Run(name, FirstDay + 1, 0, ExpectedIntervals, SouthRecord)>>,
   <<Run(name, FirstDay, 0, ExpectedIntervals, OneRecord)>>,
   <<Run(name, FirstDay, 28, 4, OneRecord)>>,
   <<Run(name, FirstDay + 4, 0, ExpectedIntervals, OneRecord)>>}

\* sort_index: by date; records of the same date in the order of the file
RECURSIVE MergeRuns(_, _)
MergeRuns(a, b) ==
  IF Len(a) = 0 THEN b
  ELSE IF Len(b) = 0 THEN a
  ELSE IF Head(b).day < Head(a).day \/ (Head(b).day = Head(a).day /\ Head(b).slot < Head(a).slot)
       THEN <<Head(b)>> \o MergeRuns(a, Tail(b))
  ELSE <<Head(a)>> \o MergeRuns(Tail(a), b)

NameLists == {<<"A">>, <<"A", "B">>, <<"B", "A">>}

MainHolidays == {<<>>, <<<<2021, 10, 6>>>>}

InitMain ==
  /\ pc = "loop"
  /\ valid_intersections \in NameLists
  /\ \E a \in Profiles("A"), b \in Profiles("B") : data = MergeRuns(a, b)
  /\ holidays \in MainHolidays
  /\ H15 = 100 /\ H24 = 500 /\ T24 = 72
  /\ stc_num \in 1..MaxStc
  /\ repeat \in 1..MaxRepeat
  /\ loop_i = 1 /\ res = None /\ res_list = <<>> /\ error_df = <<>> /\ int_counter = 0
  /\ df_int = None /\ df_int_24h = None /\ aadpt = None /\ true_ratio = None
  /\ df_int_8h = None /\ errs = None /\ draws = None

SpecMain == InitMain /\ [][NextMain]_vars

(***************************************************************************)
(* Claims about main                                                       *)
(***************************************************************************)
Valid24h(name) == get_24h_count_df(data, name, H15, H24, T24)

Valid8h(name) == get_8h_count_df(data, name, holidays)

\* the intersection has valid annualized days and no fewer eligible
\* short-term days than stc_num
Sufficient(name) == Len(Valid24h(name)) > 0 /\ Len(Valid8h(name)) >= stc_num

\* C5: the run ends with the final write, having recorded a row and the error
\* samples of every listed intersection that has sufficient data, whatever
\* the data of the other intersections and the order of the list.
C5_FailuresIsolated ==
  pc \in {"written", "raised"} =>
    /\ pc = "written"
    /\ \A i \in 1..Len(valid_intersections) :
         Sufficient(valid_intersections[i]) =>
           /\ \E j \in 1..Len(res_list) : res_list[j][1] = valid_intersections[i]
           /\ \E j \in 1..Len(error_df) :
                error_df[j].intersection = valid_intersections[i]

\* C6: an intersection without a valid annualized day is skipped:
\* get_ratio_errors is not called for it, no row and no error sample of it is
\* recorded, and int_counter counts only intersections that have such days.
C6_NoValidDaysSkipped ==
  /\ pc \in {"err_call", "one_day", "trials", "build", "err_returned"} =>
       Len(df_int_24h) > 0
  /\ \A j \in 1..Len(res_list) : res_list[j][2] > 0
  /\ \A j \in 1..Len(error_df) : Len(Valid24h(error_df[j].intersection)) > 0
  /\ int_counter <= Cardinality({i \in 1..Len(valid_intersections) :
                                   Len(Valid24h(valid_intersections[i])) > 0})

\* ---------------------------------------------------------------------------
\* The pipeline run twice on the same input: the list of intersections names
\* the same intersection twice, so that main runs get_24h_count_df,
\* get_true_ratio, get_8h_count_df, get_ratio_errors and
\* get_confidence_interval twice on the same data with the same parameters.
\* No function takes a seed and neither main.py nor utils.py seeds the
\* generator: sample() at utils.py:351 draws from numpy's global state, which
\* every call advances, so each draw is a choice among the samples of stc_num
\* of the eligible days.

\* The records of the intersection: none; all of Tuesday 2021-10-05; all of
\* that Tuesday, of the Wednesday and of the Thursday after it.
TwiceProfiles ==
  {<<>>,
   <<Run("A", FirstDay, 0, ExpectedIntervals, OneRecord)>>,
   <<Run("A", FirstDay, 0, ExpectedIntervals, OneRecord),
     Run("A", FirstDay + 1, 0, ExpectedIntervals, SouthRecord),
     Run("A", FirstDay + 2, 0, ExpectedIntervals, OneRecord)>>}

InitTwice ==
  /\ pc = "loop"
  /\ valid_intersections = <<"A", "A">>
  /\ data \in TwiceProfiles
  /\ holidays \in MainHolidays
  /\ H15 = 100 /\ H24 = 500 /\ T24 = 72
  /\ stc_num \in 1..MaxStc
  /\ repeat \in 1..MaxRepeat
  /\ loop_i = 1 /\ res = None /\ res_list = <<>> /\ error_df = <<>> /\ int_counter = 0
  /\ df_int = None /\ df_int_24h = None /\ aadpt = None /\ true_ratio = None
  /\ df_int_8h = None /\ errs = None /\ draws = None

SpecTwice == InitTwice /\ [][NextMain]_vars

\* LB, AVG, UB and nth_per of the five error columns, the last twenty entries
\* of a row of res_list
ConfidenceResult(row) == SubSeq(row, Len(row) - 4 * Len(ErrCols) + 1, Len(row))

\* C11: the pipeline run twice on the same input with the same parameters
\* gives the same confidence results, for stc_num = 1 and for stc_num > 1.
C11_SameInputSameResult ==
  (pc = "written" /\ Len(res_list) = 2) =>
    ConfidenceResult(res_list[1]) = ConfidenceResult(res_list[2])

\* ---------------------------------------------------------------------------
\* get_8h_count_df and the quarter hours of the three windows

\* a record by its quarter hour (slot 28 is 07:00): its timestamp lies in one
\* of the windows 07:00-09:00, 11:00-14:00, 15:00-18:00, both ends included
InWindows(slot) ==
  \E w \in 1..Len(Windows) : Windows[w][1] * 4 <= slot /\ slot <= Windows[w][2] * 4

\* the sum of column col over the records of day d whose timestamps lie in
\* the windows, each record once
RECURSIVE SumInWindows(_, _, _)
SumInWindows(df, d, col) ==
  IF Len(df) = 0 THEN 0
  ELSE (IF Head(df).day = d
        THEN Head(df)[col]
             * Cardinality({x \in Head(df).slot..(Head(df).slot + Head(df).n - 1) :
                              InWindows(x)})
        ELSE 0)
       + SumInWindows(Tail(df), d, col)

\* C12: each directional volume of a returned day is the sum of the day's
\* 15-minute counts whose timestamps lie in the three windows, each counted
\* once; a record outside them (09:45, 18:45) contributes nothing.
C12_OnlyWindowRecordsCounted ==
  pc = "returned_8h" =>
    \A i \in 1..Len(df_int_8h) : \A c \in 1..Len(PedCols) :
      df_int_8h[i][PedCols[c]]
        = SumInWindows(ForIntersection(data, "A"), df_int_8h[i].day, PedCols[c])

====
